---- MODULE Spec2Model ----
(***************************************************************************)
(* Job Coach AI (job_coach_app_optimized.py): a Streamlit script that      *)
(* loads a CSV of job projections, shows summary metrics, builds a         *)
(* retrieval index over the first 100 rows and forwards questions to it.   *)
(*                                                                         *)
(* Two specifications are defined over one set of variables:               *)
(*   SpecData  load_data() has returned a table; create_index() and the    *)
(*             metrics block are applied to it (function contracts).       *)
(*   Spec      one browser session of the script: every script run is one  *)
(*             action, with the two process-wide caches and the            *)
(*             session state.                                              *)
(*                                                                         *)
(* Growth rates are floats in the program; here a float is an integer      *)
(* number of hundredths of a percent (15.04 is 1504).                      *)
(***************************************************************************)
EXTENDS Integers, Sequences, FiniteSets, TLC

\* ---------------------------------------------------------------- bounds
MaxDrawn == 3      \* free rows of a table (after the padding rows)
MaxCycles == 7     \* script runs of one session

\* ------------------------------------------------------ program constants
HeadCap == 100     \* df.head(100)
Threshold == 15    \* growth_rate > 15
NumSamples == 5    \* len(sample_questions)

Hundredths(n) == n * 100

Min(a, b) == IF a < b THEN a ELSE b

\* ------------------------------------------------------------ cell values
\* A cell of the growth column as pandas holds it: NaN, a float, a string
\* that float() accepts (its value is v), or a string float() rejects.
NaN == [kind |-> "nan", v |-> 0]
Num(x) == [kind |-> "float", v |-> x]
Str(x) == [kind |-> "str", v |-> x]
Bad == [kind |-> "str_bad", v |-> 0]

NoTitle == "<NA>"
Titles == {NoTitle, "Nurse"}

GrowthValues == {Hundredths(15), Hundredths(15) + 4}
StrValues == {Hundredths(16)}

Row(t, g) == [title |-> t, growth |-> g]

\* pd.isna on a growth cell / on a title cell
isna(cell) == cell.kind = "nan"
isnaTitle(t) == t = NoTitle

\* the comparison growth_rate > 15 of line 69: a str operand raises TypeError
CompareRaises(cell) == cell.kind \in {"str", "str_bad"}
GreaterThan(cell, n) == cell.kind = "float" /\ cell.v > Hundredths(n)

\* float(growth_rate) of line 75: a non-numeric string raises ValueError
FloatRaises(cell) == cell.kind = "str_bad"
ToFloat(cell) == IF cell.kind = "nan" THEN NaN ELSE Num(cell.v)

\* ----------------------------------------------------------------- tables
\* What pd.read_csv can return for the growth column: a float64 column
\* (every cell NaN or a number) or an object column of strings, which it
\* produces only when some cell of the column is not a number.
FloatRows == {Row(t, g) : t \in Titles, g \in {NaN} \cup {Num(x) : x \in GrowthValues}}
ObjectRows == {Row(t, g) : t \in Titles, g \in {NaN, Bad} \cup {Str(x) : x \in StrValues}}

SeqsUpTo(S, n) == UNION {[1..k -> S] : k \in 0..n}

MakeTable(pad, filler, drawn) ==
  [i \in 1..(pad + Len(drawn)) |-> IF i <= pad THEN filler ELSE drawn[i - pad]]

Pads == {0, HeadCap - 1}

FloatTables ==
  {MakeTable(p, f, d) : p \in Pads,
                        f \in {Row("Nurse", Num(Hundredths(14))), Row(NoTitle, NaN)},
                        d \in SeqsUpTo(FloatRows, MaxDrawn)}

ObjectTables ==
  {t \in {MakeTable(p, f, d) : p \in Pads,
                               f \in {Row("Nurse", Str(Hundredths(16))), Row(NoTitle, NaN)},
                               d \in SeqsUpTo(ObjectRows, MaxDrawn)} :
     \E i \in 1..Len(t) : t[i].growth = Bad}

Tables == FloatTables \cup ObjectTables

\* ------------------------------------------------------------------ state
VARIABLES
  data_cache,      \* st.cache_data entry of load_data: "unset", "None", "df"
  df,              \* the cached table when data_cache = "df"
  index_cache,     \* st.cache_resource entry of create_index: "unset", "None", "engine"
  documents,       \* the list handed to VectorStoreIndex.from_documents
  message,         \* what create_index displayed when its body last ran
  fileReads,       \* executions of pd.read_csv
  indexBuilds,     \* executions of the body of create_index
  indexCalls,      \* calls of VectorStoreIndex.from_documents
  metrics,         \* the three st.metric values of the last run
  keyStored,       \* 'openai_api_key' in st.session_state
  index_loaded,    \* st.session_state.index_loaded
  sample_question, \* st.session_state.sample_question, or NoSample
  questionText,    \* value of the "Your question:" text input
  mainShown,       \* the last run rendered the question input and the buttons
  rerunPending,    \* st.rerun() was called and the new run has not started
  answer,          \* outcomes of the query calls of the last run
  queried,         \* per question: calls of query_engine.query
  submitted,       \* per question: times the user submitted it
  cycle            \* script runs so far

dataVars == <<data_cache, df, index_cache, documents, message, fileReads,
              indexBuilds, indexCalls, metrics>>
sessionVars == <<keyStored, index_loaded, sample_question, questionText,
                 mainShown, rerunPending, answer, queried, submitted, cycle>>
vars == <<dataVars, sessionVars>>

\* ----------------------------------------------------------- create_index
HeadRows(t) == 1..Min(Len(t), HeadCap)

\* mutant: only the title is tested
SkipRowTitleOnly(row) == isnaTitle(row.title)

\* line 52: if pd.isna(row[title_col]) or pd.isna(row[growth_col]): continue
SkipRow(row) == isnaTitle(row.title) \/ isna(row.growth)

\* mutant: >= in place of >
QualifierAtLeast(g) ==
  IF g.kind = "float" /\ g.v >= Hundredths(Threshold) THEN "high-growth" ELSE "stable"

\* line 69: "high-growth" if growth_rate > 15 else "stable"
Qualifier(g) == IF GreaterThan(g, Threshold) THEN "high-growth" ELSE "stable"

\* lines 55-79: the text block is built (line 69) before the metadata (line 75)
RowRaises(row) == CompareRaises(row.growth) \/ FloatRaises(row.growth)

MakeDocument(i, row) ==
  [row |-> i, qualifier |-> Qualifier(row.growth), growth_rate |-> ToFloat(row.growth)]

\* lines 51-80: the loop over rows lo..hi, evaluated by halves; an exception
\* in a row leaves the loop for the handler of line 90, so the rows after it
\* are not processed
RECURSIVE iterrows(_, _, _)
iterrows(t, lo, hi) ==
  IF lo > hi THEN [raised |-> FALSE, documents |-> <<>>]
  ELSE IF lo = hi THEN
    IF SkipRow(t[lo]) THEN [raised |-> FALSE, documents |-> <<>>]
    ELSE IF RowRaises(t[lo]) THEN [raised |-> TRUE, documents |-> <<>>]
    ELSE [raised |-> FALSE, documents |-> <<MakeDocument(lo, t[lo])>>]
  ELSE LET mid == (lo + hi) \div 2
           left == iterrows(t, lo, mid)
       IN IF left.raised THEN left
          ELSE LET right == iterrows(t, mid + 1, hi) IN
               [raised |-> right.raised,
                documents |-> left.documents \o right.documents]

\* mutant: the emptiness test is dropped
NoDocumentsNever(docs) == FALSE

\* line 82: if not documents
NoDocuments(docs) == docs = <<>>

\* lines 33-92 with df loaded; extOk: VectorStoreIndex.from_documents returned
create_index(t, extOk) ==
  LET it == iterrows(t, 1, Min(Len(t), HeadCap)) IN
  IF it.raised
    THEN [ret |-> "None", documents |-> <<>>, calls |-> 0,
          message |-> "Error creating index"]
  ELSE IF NoDocuments(it.documents)
    THEN [ret |-> "None", documents |-> <<>>, calls |-> 0,
          message |-> "No documents created"]
  ELSE IF extOk
    THEN [ret |-> "engine", documents |-> it.documents, calls |-> 1,
          message |-> "Index created"]
  ELSE [ret |-> "None", documents |-> it.documents, calls |-> 1,
        message |-> "Error creating index"]

\* ---------------------------------------------------------------- metrics
\* mutant: the statistics run over df.head(100)
StatsRowsHead(t) == HeadRows(t)

\* df[growth_col]: the rows the statistics run over
StatsRows(t) == 1..Len(t)

\* Series.mean()/max() skip NaN
Present(t) == {i \in StatsRows(t) : ~isna(t[i].growth)}

\* mean() of an object column of strings raises TypeError (uncaught)
StatsRaises(t) == \E i \in StatsRows(t) : t[i].growth.kind \in {"str", "str_bad"}

\* the sum of the growth values of the rows of S between lo and hi, added
\* up by halves
RECURSIVE SumRange(_, _, _, _)
SumRange(t, S, lo, hi) ==
  IF lo > hi THEN 0
  ELSE IF lo = hi THEN (IF lo \in S THEN t[lo].growth.v ELSE 0)
  ELSE LET mid == (lo + hi) \div 2 IN
       SumRange(t, S, lo, mid) + SumRange(t, S, mid + 1, hi)

SumOver(t, S) == SumRange(t, S, 1, Len(t))

ColumnMax(t) == CHOOSE m \in {t[i].growth.v : i \in Present(t)} :
                  \A i \in Present(t) : t[i].growth.v <= m

\* f"{x:.1f}" of x = num/den hundredths: the nearest number of tenths; on an
\* exact decimal tie the binary value of the float decides, so both
\* neighbours are possible outcomes
Format1(num, den) ==
  LET q == num \div (10 * den) IN
  {d \in {q, q + 1} :
     LET e == 10 * d * den - num IN (IF e < 0 THEN -e ELSE e) <= 5 * den}

\* a displayed number: "nan%" or a number of tenths ("15.0%" is 150)
NanText == [kind |-> "nan", v |-> 0]
Tenths(d) == [kind |-> "tenths", v |-> d]

NoMetrics == [state |-> "unset", total |-> 0, avg |-> NanText, max |-> NanText]
MetricsRaised == [state |-> "raised", total |-> 0, avg |-> NanText, max |-> NanText]

\* lines 116-120: the values the three st.metric calls can display
Metrics(t) ==
  IF Present(t) = {}
    THEN {[state |-> "shown", total |-> Len(t), avg |-> NanText, max |-> NanText]}
    ELSE {[state |-> "shown", total |-> Len(t), avg |-> Tenths(a), max |-> Tenths(m)] :
            a \in Format1(SumOver(t, Present(t)), Cardinality(Present(t))),
            m \in Format1(ColumnMax(t), 1)}

\* ------------------------------------------------------------- questions
NoSample == "<none>"
Samples == {<<"sample", k>> : k \in 1..NumSamples}
Typed == {<<"typed", 1>>}
Questions == Samples \cup Typed
NoText == <<"typed", 0>>

SessionInit ==
  /\ keyStored = FALSE
  /\ index_loaded = FALSE
  /\ sample_question = NoSample
  /\ questionText = NoText
  /\ mainShown = FALSE
  /\ rerunPending = FALSE
  /\ answer = <<>>
  /\ queried = [q \in Questions |-> 0]
  /\ submitted = [q \in Questions |-> 0]
  /\ cycle = 0

\* ------------------------------------------- SpecData: function contracts
\* load_data() has returned the table; nothing else has run
InitData ==
  /\ data_cache = "df"
  /\ df \in Tables
  /\ index_cache = "unset"
  /\ documents = <<>>
  /\ message = "none"
  /\ fileReads = 1
  /\ indexBuilds = 0
  /\ indexCalls = 0
  /\ metrics = NoMetrics
  /\ SessionInit

\* create_index() called on the loaded table (cache miss: the body runs)
CallCreateIndex ==
  /\ index_cache = "unset"
  /\ \E extOk \in BOOLEAN :
       LET r == create_index(df, extOk) IN
       /\ index_cache' = r.ret
       /\ documents' = r.documents
       /\ message' = r.message
       /\ indexCalls' = indexCalls + r.calls
  /\ indexBuilds' = indexBuilds + 1
  /\ UNCHANGED <<data_cache, df, fileReads, metrics, sessionVars>>

\* lines 112-120 on the loaded table
ShowStats ==
  /\ metrics = NoMetrics
  /\ IF StatsRaises(df) THEN metrics' = MetricsRaised ELSE metrics' \in Metrics(df)
  /\ UNCHANGED <<data_cache, df, index_cache, documents, message, fileReads,
                 indexBuilds, indexCalls, sessionVars>>

NextData == CallCreateIndex \/ ShowStats

SpecData == InitData /\ [][NextData]_vars

\* ----------------------------------------------------- Spec: one session
\* The files pd.read_csv can find: none (it raises), a table that yields a
\* document, a table with no valid row, a table whose growth column holds
\* strings.
NoFile == [found |-> FALSE, table |-> <<>>]
File(t) == [found |-> TRUE, table |-> t]
TableGood == <<Row("Nurse", Num(Hundredths(15) + 4)), Row(NoTitle, NaN)>>
TableNoValid == <<Row(NoTitle, Num(Hundredths(15)))>>
TableStrings == <<Row("Nurse", Str(Hundredths(16))), Row("Nurse", Bad)>>
FileOutcomes == {NoFile, File(TableGood), File(TableNoValid), File(TableStrings)}

\* query_engine.query either returns a response or raises
Outcomes == {"response", "error"}

\* the process has started; no script run has happened
Init ==
  /\ data_cache = "unset"
  /\ df = <<>>
  /\ index_cache = "unset"
  /\ documents = <<>>
  /\ message = "none"
  /\ fileReads = 0
  /\ indexBuilds = 0
  /\ indexCalls = 0
  /\ metrics = NoMetrics
  /\ SessionInit

\* mutant: the main block runs without a stored key
KeyInSessionAlways(stored) == TRUE

\* line 106: if 'openai_api_key' in st.session_state
KeyInSession(stored) == stored

\* line 125: if query_engine
Truthy(engine) == engine = "engine"

\* One run of the script, top to bottom.
\*   keyEntered  the key input holds a non-empty value in this run
\*   text        the value of the question input in this run
\*   clicked     the sample button that returns True in this run, or NoSample
Run(keyEntered, text, clicked) ==
  /\ cycle < MaxCycles
  /\ cycle' = cycle + 1
  /\ \E file \in FileOutcomes, extOk \in BOOLEAN, o1 \in Outcomes, o2 \in Outcomes :
       LET \* lines 95-104: without a key the input is shown; a value is
           \* stored and st.rerun() ends the run
           storesKey == ~keyStored /\ keyEntered
           hasKey == ~storesKey /\ KeyInSession(keyStored)
           \* line 108, load_data: the body runs on a cache miss only, and
           \* what it returns (None included) is cached
           loads == hasKey /\ data_cache = "unset"
           dc == IF loads THEN (IF file.found THEN "df" ELSE "None") ELSE data_cache
           table == IF loads THEN file.table ELSE df
           \* lines 110-120: an uncaught exception ends the run
           statsRun == hasKey /\ dc = "df"
           statsOk == statsRun /\ ~StatsRaises(table)
           \* line 123, create_index: same caching
           builds == statsOk /\ index_cache = "unset"
           r == create_index(table, extOk)
           engine == IF builds THEN r.ret ELSE index_cache
           \* lines 125-148
           main == statsOk /\ Truthy(engine)
           asksTyped == main /\ text # NoText
           \* lines 160-163: st.rerun() ends the run
           click == main /\ clicked # NoSample
           \* lines 166-177
           asksSample == main /\ ~click /\ sample_question # NoSample
       IN
       /\ keyStored' = (keyStored \/ storesKey)
       /\ rerunPending' = (storesKey \/ click)
       /\ data_cache' = dc
       /\ df' = table
       /\ fileReads' = fileReads + (IF loads THEN 1 ELSE 0)
       /\ metrics' \in (IF statsOk THEN Metrics(table)
                        ELSE IF statsRun THEN {MetricsRaised} ELSE {NoMetrics})
       /\ index_cache' = (IF statsOk THEN engine ELSE index_cache)
       /\ indexBuilds' = indexBuilds + (IF builds THEN 1 ELSE 0)
       /\ indexCalls' = indexCalls + (IF builds THEN r.calls ELSE 0)
       /\ documents' = (IF builds THEN r.documents ELSE documents)
       /\ message' = (IF builds THEN r.message ELSE message)
       /\ index_loaded' = (index_loaded \/ main)
       /\ mainShown' = main
       /\ questionText' = (IF main THEN text ELSE NoText)
       /\ sample_question' = (IF click THEN clicked
                              ELSE IF asksSample THEN NoSample ELSE sample_question)
       /\ queried' = [q \in Questions |->
                        queried[q] + (IF asksTyped /\ q = text THEN 1 ELSE 0)
                                   + (IF asksSample /\ q = sample_question THEN 1 ELSE 0)]
       /\ answer' = (IF asksTyped THEN <<o1>> ELSE <<>>)
                       \o (IF asksSample THEN <<o2>> ELSE <<>>)

\* the page is opened, the user reruns it, or the run st.rerun() asked for
OpenOrRerun ==
  /\ Run(FALSE, questionText, NoSample)
  /\ UNCHANGED submitted

\* the user enters a key in the "Setup Required" input
EnterKey ==
  /\ cycle > 0 /\ ~keyStored /\ ~rerunPending
  /\ Run(TRUE, questionText, NoSample)
  /\ UNCHANGED submitted

\* the user changes the question input (to a question, or clears it)
TypeQuestion ==
  /\ mainShown /\ ~rerunPending
  /\ \E q \in Typed \cup {NoText} :
       /\ q # questionText
       /\ Run(FALSE, q, NoSample)
       /\ submitted' = [p \in Questions |-> submitted[p] + (IF p = q THEN 1 ELSE 0)]

\* the user clicks one of the five sample buttons
ClickSample ==
  /\ mainShown /\ ~rerunPending
  /\ \E s \in Samples :
       /\ Run(FALSE, questionText, s)
       /\ submitted' = [p \in Questions |-> submitted[p] + (IF p = s THEN 1 ELSE 0)]

Next == OpenOrRerun \/ EnterKey \/ TypeQuestion \/ ClickSample

Spec == Init /\ [][Next]_vars

\* -------------------------------------------------- properties of Spec
\* C7: every question is queried exactly as often as the user submitted it.
C7_OneQueryPerSubmission ==
  ~rerunPending => \A q \in Questions : queried[q] = submitted[q]

\* C8: a run that follows a failed load or a failed index build executes
\* the failed operation again instead of returning the earlier failure.
C8_FailedOperationRetried ==
  [][(cycle' = cycle + 1 /\ keyStored) =>
       /\ data_cache = "None" => fileReads' = fileReads + 1
       /\ (data_cache = "df" /\ ~StatsRaises(df) /\ index_cache = "None") =>
            indexBuilds' = indexBuilds + 1]_vars

\* C10: the external index build and the query are called only in a run
\* that starts with a key stored in the session; a query is called only
\* when the table is loaded and create_index returned a query handle.
C10_ExternalCallsGuarded ==
  [][/\ (indexCalls' # indexCalls \/ queried' # queried) => keyStored
     /\ queried' # queried => (data_cache' = "df" /\ index_cache' = "engine")
     /\ (~keyStored \/ data_cache' = "None" \/ index_cache' = "None") =>
          queried' = queried]_vars

C10_Witness ==
  /\ keyStored
  /\ indexCalls > 0
  /\ queried[<<"typed", 1>>] > 0
  /\ \E s \in Samples : queried[s] > 0

\* ------------------------------------------------ properties of SpecData
Built == indexBuilds > 0
TitlePresent(i) == df[i].title # NoTitle
GrowthPresent(i) == df[i].growth.kind # "nan"
ValidRows == {i \in 1..Len(df) : i <= HeadCap /\ TitlePresent(i) /\ GrowthPresent(i)}
DocRows == {documents[k].row : k \in 1..Len(documents)}

\* C1: no document comes from a row whose job title or growth rate is missing.
C1_MissingRowsExcluded ==
  \A k \in 1..Len(documents) :
    TitlePresent(documents[k].row) /\ GrowthPresent(documents[k].row)

C1_Witness ==
  /\ Built
  /\ documents # <<>>
  /\ \E i \in 1..Len(df) : i <= HeadCap /\ TitlePresent(i) /\ ~GrowthPresent(i)
  /\ \E i \in 1..Len(df) : i <= HeadCap /\ ~TitlePresent(i) /\ GrowthPresent(i)

\* C2: the documents are exactly the rows among the first 100 that have a
\* title and a growth rate, one document each, in row order.
C2_OneDocumentPerValidRow ==
  Built =>
    /\ DocRows = ValidRows
    /\ Len(documents) = Cardinality(ValidRows)
    /\ \A j, k \in 1..Len(documents) : j < k => documents[j].row < documents[k].row

\* C3: a document says "high-growth" when its row's growth rate is above 15
\* and "stable" when it is 15 or less.
C3_QualifierThreshold ==
  \A k \in 1..Len(documents) :
    LET g == df[documents[k].row].growth IN
    /\ g.v > Hundredths(15) => documents[k].qualifier = "high-growth"
    /\ g.v <= Hundredths(15) => documents[k].qualifier = "stable"

C3_Witness ==
  /\ \E k \in 1..Len(documents) :
       /\ df[documents[k].row].growth.v = Hundredths(15)
       /\ documents[k].qualifier = "stable"
  /\ \E k \in 1..Len(documents) :
       /\ df[documents[k].row].growth.v = Hundredths(15) + 4
       /\ documents[k].qualifier = "high-growth"

\* C4: with no valid row among the first 100, create_index shows
\* "No documents created", returns no query handle and never calls the
\* external indexing function.
C4_NoDocumentsProduced ==
  (Built /\ ValidRows = {}) =>
    /\ message = "No documents created"
    /\ index_cache = "None"
    /\ indexCalls = 0

C4_Witness ==
  /\ Built
  /\ ValidRows = {}
  /\ message = "No documents created"
  /\ \E i \in 1..Len(df) : i > HeadCap /\ TitlePresent(i) /\ GrowthPresent(i)

\* C5: a row among the first 100 whose growth rate is an unparseable string
\* is skipped alone: the other valid rows yield their documents and the
\* external indexing call is made with them.
C5_UnparseableRowSkipped ==
  (Built /\ \E i \in ValidRows : df[i].growth.kind = "str_bad") =>
    /\ DocRows = {i \in ValidRows : df[i].growth.kind # "str_bad"}
    /\ (DocRows # {} => indexCalls = 1)

\* C6: every document's metadata growth_rate is the float value of its row's
\* growth cell, and a row whose growth rate is a string convertible to a
\* number yields a document.
C6_GrowthRateIsFloat ==
  Built =>
    /\ \A k \in 1..Len(documents) :
         documents[k].growth_rate = Num(df[documents[k].row].growth.v)
    /\ (\A i \in ValidRows : df[i].growth.kind # "str_bad") =>
         \A i \in ValidRows : df[i].growth.kind = "str" => i \in DocRows

\* C9: the displayed metrics cover every row of the table.
AllPresent == {i \in 1..Len(df) : GrowthPresent(i)}
IsRounded(d, num, den) ==
  LET e == 10 * d * den - num IN e <= 5 * den /\ -e <= 5 * den

\* C9 as stated: the displayed maximum and average equal the column's
\* maximum and mean.
C9_MetricsEqualColumn ==
  (metrics.state = "shown" /\ AllPresent # {}) =>
    /\ \A i \in AllPresent : df[i].growth.v <= 10 * metrics.max.v
    /\ \E i \in AllPresent : df[i].growth.v = 10 * metrics.max.v
    /\ 10 * metrics.avg.v * Cardinality(AllPresent) = SumOver(df, AllPresent)

\* C9 amended: the displayed maximum and average are the maximum and the
\* mean of the growth rates of all rows of the table that have one, each
\* rounded to one decimal place.
C9_MetricsOverWholeTable ==
  (metrics.state = "shown" /\ AllPresent # {}) =>
    /\ metrics.total = Len(df)
    /\ \E i \in AllPresent :
         /\ \A j \in AllPresent : df[j].growth.v <= df[i].growth.v
         /\ IsRounded(metrics.max.v, df[i].growth.v, 1)
    /\ IsRounded(metrics.avg.v, SumOver(df, AllPresent), Cardinality(AllPresent))

C9_Witness ==
  /\ metrics.state = "shown"
  /\ Len(df) > HeadCap
  /\ \E i \in AllPresent :
       /\ i > HeadCap
       /\ IsRounded(metrics.max.v, df[i].growth.v, 1)
       /\ \A j \in AllPresent : j <= HeadCap => df[j].growth.v + 50 < df[i].growth.v

====
